---- MODULE Spec2Model ----
(***************************************************************************)
(* Model of the Marketing Intelligence Dashboard.                          *)
(*                                                                         *)
(*   src/src/dashboard.py   the Streamlit dashboard: main() is re-run on   *)
(*                          every widget interaction over a cached         *)
(*                          snapshot of two tables.                        *)
(*   src/run_dashboard.py   the deployment script: a straight-line run     *)
(*                          that loads four CSV files and renders them.    *)
(*                                                                         *)
(* Numbers.  Column values (spend, attributed revenue, roas, cpc) are      *)
(* integers counting thousandths.  A group mean is the exact rational      *)
(* <<n, d>> (n thousandths divided by d).  DataFrame.round(2) maps such a  *)
(* rational to the nearest hundredth, half to even.                        *)
(***************************************************************************)
EXTENDS Integers, Sequences, FiniteSets, TLC

VARIABLES
    \* ---- dashboard.py ----
    marketing_data,      \* snapshot returned by load_data()
    business_data,
    date_range,          \* st.date_input value: a tuple of 1 or 2 dates
    platforms,           \* st.multiselect value: a set of platform names
    filtered_marketing,  \* main(): the filtered views
    filtered_business,
    summary,             \* show_executive_summary: roas, cac
    aggregates,          \* the three .round(2) aggregates of the recommendations
    rec,                 \* show_strategic_recommendations: the findings
    daily_data,          \* show_performance_trends: per-date rows with spend_growth
    messages,            \* st.session_state.messages
    \* ---- run_dashboard.py ----
    files,               \* the dataset directory: name -> table or "missing"
    env,                 \* the script's global names: name -> table, or Undefined
    loaded,              \* the tables as pd.read_csv returned them
    df_ref,              \* which object the name df is bound to
    platform,            \* st.sidebar.selectbox value
    pc,                  \* position of the script run
    load_error,          \* st.error was shown by the except branch
    exception,           \* the unhandled exception that ended the run, if any
    rendered             \* sections of output produced so far

dashVars == <<marketing_data, business_data, date_range, platforms,
              filtered_marketing, filtered_business, summary, aggregates,
              rec, daily_data, messages>>
runVars == <<files, env, loaded, df_ref, platform, pc, load_error, exception,
            rendered>>
vars == <<dashVars, runVars>>

---------------------------------------------------------------------------
(* Bounds *)
MaxRows == 3        \* rows of the marketing snapshot
MaxPrompts == 2     \* prompts submitted in one session

(* Dimension values, each in ascending key order (groupby sorts its keys). *)
PlatformOrder == <<"Facebook", "Google", "TikTok">>
StateOrder == <<"CA", "NY">>
TacticOrder == <<"Prospecting", "Retargeting">>
DateOrder == <<1, 2, 3>>

DimOrder(dim) ==
    CASE dim = "platform" -> PlatformOrder
      [] dim = "state" -> StateOrder
      [] dim = "tactic" -> TacticOrder
      [] dim = "date" -> DateOrder

Range(s) == {s[i] : i \in DOMAIN s}

Row(d, p, s, t, sp, rv, ro, cp) ==
    [date |-> d, platform |-> p, state |-> s, tactic |-> t, spend |-> sp,
     attributed_revenue |-> rv, roas |-> ro, cpc |-> cp]

(* The rows a snapshot is drawn from (thousandths). *)
RowDomain ==
    << Row(1, "Facebook", "CA", "Prospecting", 1000, 4000, 4000, 500),
       Row(1, "Google", "NY", "Retargeting", 2000, 2000, 1000, 2000),
       Row(1, "TikTok", "CA", "Retargeting", 0, 0, 0, 0),
       Row(2, "Facebook", "NY", "Retargeting", 1000, 2001, 2001, 1004),
       Row(2, "Google", "CA", "Prospecting", 1000, 2004, 2004, 1001),
       Row(2, "TikTok", "NY", "Prospecting", 1504, 3008, 2000, 1500),
       Row(3, "Facebook", "CA", "Retargeting", 2500, 2500, 1000, 700),
       Row(3, "Google", "NY", "Prospecting", 1004, 4016, 4000, 1004) >>

BRow(d, o, nc, tr) ==
    [date |-> d, orders |-> o, new_customers |-> nc, total_revenue |-> tr]

BusinessFull ==
    << BRow(1, 10, 0, 5000), BRow(2, 20, 5, 9000), BRow(3, 30, 0, 7000) >>

BusinessTables == { BusinessFull }

(* Snapshots: 1..MaxRows rows of RowDomain, listed up to row order. *)
Snapshots ==
    UNION { { [i \in 1..n |-> RowDomain[ix[i]]] :
                ix \in { f \in [1..n -> DOMAIN RowDomain] :
                           \A i \in 1..(n-1) : f[i] <= f[i+1] } } :
            n \in 1..MaxRows }

---------------------------------------------------------------------------
(* Arithmetic on exact rationals <<n, d>>, d > 0 *)
RLess(a, b) == a[1] * b[2] < b[1] * a[2]
REq(a, b) == a[1] * b[2] = b[1] * a[2]
RLeq(a, b) == a[1] * b[2] <= b[1] * a[2]
RAdd(a, b) == <<a[1] * b[2] + b[1] * a[2], a[2] * b[2]>>
RSub(a, b) == <<a[1] * b[2] - b[1] * a[2], a[2] * b[2]>>

RECURSIVE RSum(_)
RSum(s) == IF s = <<>> THEN <<0, 1>> ELSE RAdd(Head(s), RSum(Tail(s)))

(* Series.mean() of a non-empty sequence of rationals *)
RMean(s) == LET t == RSum(s) IN <<t[1], t[2] * Len(s)>>

RECURSIVE ColSum(_, _)
ColSum(t, col) == IF t = <<>> THEN 0 ELSE Head(t)[col] + ColSum(Tail(t), col)

---------------------------------------------------------------------------
(* dashboard.py: main(), the filter (lines 286-293) *)

(* The filter with the end of the range excluded *)
FilterMarketingEndExclusive(md, dr, ps) ==
    IF Len(dr) = 2
    THEN SelectSeq(md, LAMBDA r : r.date >= dr[1] /\ r.date < dr[2]
                                  /\ r.platform \in ps)
    ELSE SelectSeq(md, LAMBDA r : r.platform \in ps)

FilterMarketing(md, dr, ps) ==
    IF Len(dr) = 2
    THEN SelectSeq(md, LAMBDA r : r.date >= dr[1] /\ r.date <= dr[2]
                                  /\ r.platform \in ps)
    ELSE SelectSeq(md, LAMBDA r : r.platform \in ps)

FilterBusiness(bd, dr) ==
    IF Len(dr) = 2
    THEN SelectSeq(bd, LAMBDA r : r.date >= dr[1] /\ r.date <= dr[2])
    ELSE bd

---------------------------------------------------------------------------
(* DataFrame.groupby(dim).agg({... 'sum' / 'mean' ...}) *)

(* The distinct values of the dimension present in the table, ascending. *)
GroupKeys(t, dim) ==
    SelectSeq(DimOrder(dim), LAMBDA k : \E i \in DOMAIN t : t[i][dim] = k)

GroupRows(t, dim, k) == SelectSeq(t, LAMBDA r : r[dim] = k)

(* One row per key: sums of spend and attributed revenue, means of roas   *)
(* and cpc (the mean of ctr is computed by the code and never read).       *)
Agg(t, dim) ==
    LET ks == GroupKeys(t, dim) IN
    [i \in DOMAIN ks |->
        LET g == GroupRows(t, dim, ks[i]) IN
        [key |-> ks[i],
         spend |-> <<ColSum(g, "spend"), 1>>,
         attributed_revenue |-> <<ColSum(g, "attributed_revenue"), 1>>,
         roas |-> <<ColSum(g, "roas"), Len(g)>>,
         cpc |-> <<ColSum(g, "cpc"), Len(g)>>]]

(* round(2) of a non-negative rational of thousandths: the nearest        *)
(* hundredth, half to even; the result is again in thousandths.            *)
Round2(v) ==
    LET m == 10 * v[2]
        q == v[1] \div m
        r == v[1] % m
        h == IF 2 * r < m THEN q
             ELSE IF 2 * r > m THEN q + 1
             ELSE IF q % 2 = 0 THEN q ELSE q + 1
    IN <<10 * h, 1>>

(* DataFrame.round(2) of an aggregate *)
RoundAgg(a) ==
    [i \in DOMAIN a |->
        [key |-> a[i].key,
         spend |-> Round2(a[i].spend),
         attributed_revenue |-> Round2(a[i].attributed_revenue),
         roas |-> Round2(a[i].roas),
         cpc |-> Round2(a[i].cpc)]]

(* The aggregate as the dashboard builds it (lines 118, 132, 185-187) *)
RoundedAgg(t, dim) == RoundAgg(Agg(t, dim))

Column(a, col) == [i \in DOMAIN a |-> a[i][col]]

(* Series.idxmax(): the key of the first row holding the maximum *)
IdxMax(a, col) ==
    LET i == CHOOSE i \in DOMAIN a :
                /\ \A j \in DOMAIN a : RLeq(a[j][col], a[i][col])
                /\ \A j \in 1..(i-1) : RLess(a[j][col], a[i][col])
    IN a[i].key

(* Series.idxmin(): the key of the first row holding the minimum *)
IdxMin(a, col) ==
    LET i == CHOOSE i \in DOMAIN a :
                /\ \A j \in DOMAIN a : RLeq(a[i][col], a[j][col])
                /\ \A j \in 1..(i-1) : RLess(a[i][col], a[j][col])
    IN a[i].key

ColMax(a, col) ==
    LET i == CHOOSE i \in DOMAIN a : \A j \in DOMAIN a : RLeq(a[j][col], a[i][col])
    IN a[i][col]

ColMin(a, col) ==
    LET i == CHOOSE i \in DOMAIN a : \A j \in DOMAIN a : RLeq(a[i][col], a[j][col])
    IN a[i][col]

---------------------------------------------------------------------------
(* Guarded divisions (lines 96, 99, 183) *)

(* a / b; div_by_zero records that the division was attempted with b = 0 *)
Div(a, b) ==
    IF b = 0 THEN [div_by_zero |-> TRUE, num |-> 0, den |-> 1]
    ELSE [div_by_zero |-> FALSE, num |-> a, den |-> b]

Zero == [div_by_zero |-> FALSE, num |-> 0, den |-> 1]

(* The division guarded by >= instead of > *)
ROASGuardedFromZero(total_revenue, total_spend) ==
    IF total_spend >= 0 THEN Div(total_revenue, total_spend) ELSE Zero

(* total_revenue / total_spend if total_spend > 0 else 0 *)
ROAS(total_revenue, total_spend) ==
    IF total_spend > 0 THEN Div(total_revenue, total_spend) ELSE Zero

(* total_spend / new_customers if new_customers > 0 else 0; spend is in   *)
(* thousandths and new_customers a count.                                  *)
CAC(total_spend, new_customers) ==
    IF new_customers > 0 THEN Div(total_spend, new_customers) ELSE Zero

(* show_executive_summary, lines 94-99 *)
ExecutiveSummary(fm, fb) ==
    LET total_spend == ColSum(fm, "spend")
        total_revenue == ColSum(fm, "attributed_revenue")
        total_orders == IF Len(fb) > 0 THEN ColSum(fb, "orders") ELSE 0
        new_customers == IF Len(fb) > 0 THEN ColSum(fb, "new_customers") ELSE 0
    IN [total_spend |-> total_spend,
        total_revenue |-> total_revenue,
        roas |-> ROAS(total_revenue, total_spend),
        total_orders |-> total_orders,
        new_customers |-> new_customers,
        cac |-> CAC(total_spend, new_customers)]

---------------------------------------------------------------------------
(* show_strategic_recommendations, lines 189-243, over the three          *)
(* aggregates cp (by platform), sp (by state), tp (by tactic) and the      *)
(* overall roas of line 183.                                               *)

NoFinding == "none"

Findings(cp, sp, tp, roas) ==
    LET avg_roas == RMean(Column(cp, "roas"))
        avg_cpc == RMean(Column(cp, "cpc"))
        underperforming == SelectSeq(cp, LAMBDA r : RLess(r.roas, avg_roas))
        \* cpc > avg_cpc * 1.2
        high_cpc == SelectSeq(cp, LAMBDA r :
                        RLess(<<12 * avg_cpc[1], 10 * avg_cpc[2]>>, r.cpc))
        mx == ColMax(cp, "roas")
        mn == ColMin(cp, "roas")
        roas_range == RSub(mx, mn)
        \* (roas_range / min) * 100 if min > 0 else 0
        growth_potential ==
            IF mn[1] > 0 THEN <<100 * roas_range[1] * mn[2], roas_range[2] * mn[1]>>
            ELSE <<0, 1>>
        \* (roas / 4.0) * 100
        efficiency_score == <<100 * roas.num, 4 * roas.den>>
    IN [shown |-> TRUE,
        avg_roas |-> avg_roas,
        best_channel |-> IdxMax(cp, "roas"),
        best_channel_roas |-> mx,
        best_state |-> IdxMax(sp, "roas"),
        best_tactic |-> IdxMax(tp, "roas"),
        worst_channel |-> IF underperforming = <<>> THEN NoFinding
                          ELSE IdxMin(underperforming, "roas"),
        expensive_channel |-> IF high_cpc = <<>> THEN NoFinding
                              ELSE IdxMax(high_cpc, "cpc"),
        overall |-> IF RLess(<<3, 1>>, <<roas.num, roas.den>>)
                    THEN "Above Target" ELSE "Needs Improvement",
        efficiency |-> IF RLess(<<80, 1>>, efficiency_score) THEN "Excellent"
                       ELSE IF RLess(<<60, 1>>, efficiency_score) THEN "Good"
                       ELSE "Needs Work",
        growth |-> IF RLess(<<50, 1>>, growth_potential)
                   THEN "High Opportunity" ELSE "Moderate",
        roas |-> roas]

(* The st.info branch of line 245: nothing is computed *)
NoFindings ==
    [shown |-> FALSE, avg_roas |-> <<0, 1>>, best_channel |-> NoFinding,
     best_channel_roas |-> <<0, 1>>, best_state |-> NoFinding,
     best_tactic |-> NoFinding, worst_channel |-> NoFinding,
     expensive_channel |-> NoFinding, overall |-> NoFinding,
     efficiency |-> NoFinding, growth |-> NoFinding, roas |-> Zero]

(* lines 185-187: the aggregates the findings are computed from *)
RecommendationAggregates(fm) ==
    [platform |-> RoundedAgg(fm, "platform"),
     state |-> RoundedAgg(fm, "state"),
     tactic |-> RoundedAgg(fm, "tactic")]

StrategicRecommendations(fm) ==
    IF fm = <<>> THEN NoFindings
    ELSE LET a == RecommendationAggregates(fm) IN
         Findings(a.platform, a.state, a.tactic,
                  ROAS(ColSum(fm, "attributed_revenue"), ColSum(fm, "spend")))

---------------------------------------------------------------------------
(* show_performance_trends, lines 146-147 *)

Null == [kind |-> "null", num |-> 0, den |-> 1]

(* The growth of the first element reported as zero *)
PctChangeZeroFirst(s, i) ==
    IF i = 1 THEN [kind |-> "num", num |-> 0, den |-> 1]
    ELSE IF s[i-1] = 0
         THEN [kind |-> IF s[i] = 0 THEN "nan" ELSE "inf", num |-> 0, den |-> 1]
         ELSE [kind |-> "num", num |-> 100 * (s[i] - s[i-1]), den |-> s[i-1]]

(* Series.pct_change() * 100 at position i of a sequence of numbers: null  *)
(* for the first element; a float division by a zero predecessor gives     *)
(* inf (or nan for 0/0) and no exception.                                  *)
PctChange(s, i) ==
    IF i = 1 THEN Null
    ELSE IF s[i-1] = 0
         THEN [kind |-> IF s[i] = 0 THEN "nan" ELSE "inf", num |-> 0, den |-> 1]
         ELSE [kind |-> "num", num |-> 100 * (s[i] - s[i-1]), den |-> s[i-1]]

PerformanceTrends(fm) ==
    LET d == Agg(fm, "date")
        spend == [i \in DOMAIN d |-> d[i].spend[1]]
    IN [i \in DOMAIN d |->
          [date |-> d[i].key,
           spend |-> d[i].spend,
           attributed_revenue |-> d[i].attributed_revenue,
           roas |-> d[i].roas,
           spend_growth |-> PctChange(spend, i)]]

---------------------------------------------------------------------------
(* show_ai_assistant, lines 252-267 *)

Prompts == {"which channel is best", "why is cac high"}
Service == {"up", "down"}

Fallback == "AI insights are unavailable"
Answer == "answer"

(* ai_insights.ask_ai: the answer, or the fallback string when the        *)
(* backing service is unavailable; it never raises.                        *)
ask_ai(prompt, fm, fb, service) ==
    IF service = "up" THEN Answer ELSE Fallback

(* The assistant message appended only for an answer, not for the fallback *)
show_ai_assistant_answers_only(msgs, prompt, fm, fb, service) ==
    LET with_user == Append(msgs, [role |-> "user", content |-> prompt])
        response == ask_ai(prompt, fm, fb, service)
    IN IF response = Fallback THEN with_user
       ELSE Append(with_user, [role |-> "assistant", content |-> response])

(* One run of show_ai_assistant with a submitted prompt *)
show_ai_assistant(msgs, prompt, fm, fb, service) ==
    LET with_user == Append(msgs, [role |-> "user", content |-> prompt])
        response == ask_ai(prompt, fm, fb, service)
    IN Append(with_user, [role |-> "assistant", content |-> response])

---------------------------------------------------------------------------
(* main(), lines 272-323: one run of the script over the cached snapshot   *)

min_date(md) == CHOOSE d \in {md[i].date : i \in DOMAIN md} :
                    \A i \in DOMAIN md : d <= md[i].date
max_date(md) == CHOOSE d \in {md[i].date : i \in DOMAIN md} :
                    \A i \in DOMAIN md : d >= md[i].date

(* marketing_data['platform'].unique(): the options of the multiselect *)
PlatformOptions(md) == {md[i].platform : i \in DOMAIN md}

(* st.date_input with min_value / max_value: one date while the user is   *)
(* still picking the range, otherwise two, each within the bounds.         *)
DateSelections(md) ==
    LET D == min_date(md)..max_date(md) IN
    {<<a>> : a \in D} \cup {<<a, b>> : a \in D, b \in D}

Main(dr, ps) ==
    LET fm == FilterMarketing(marketing_data, dr, ps)
        fb == FilterBusiness(business_data, dr)
    IN /\ date_range' = dr
       /\ platforms' = ps
       /\ filtered_marketing' = fm
       /\ filtered_business' = fb
       /\ summary' = ExecutiveSummary(fm, fb)
       /\ aggregates' = RecommendationAggregates(fm)
       /\ rec' = StrategicRecommendations(fm)
       /\ daily_data' = PerformanceTrends(fm)
       /\ UNCHANGED <<marketing_data, business_data>>

(* The user changes the period: the script is re-run *)
SelectPeriod(dr) ==
    /\ dr \in DateSelections(marketing_data)
    /\ dr # date_range
    /\ Main(dr, platforms)
    /\ UNCHANGED messages
    /\ UNCHANGED runVars

(* The user changes the platform selection: the script is re-run *)
SelectPlatforms(ps) ==
    /\ ps \in SUBSET PlatformOptions(marketing_data)
    /\ ps # platforms
    /\ Main(date_range, ps)
    /\ UNCHANGED messages
    /\ UNCHANGED runVars

(* The user submits a prompt: the script is re-run and the assistant runs *)
SubmitPrompt(prompt, service) ==
    /\ Len(messages) < 2 * MaxPrompts
    /\ Main(date_range, platforms)
    /\ messages' = show_ai_assistant(messages, prompt, filtered_marketing',
                                     filtered_business', service)
    /\ UNCHANGED runVars

(* The state after the first run of the script over a snapshot *)
DashStart(md, bd) ==
    LET dr == <<min_date(md), max_date(md)>>
        ps == PlatformOptions(md)
        fm == FilterMarketing(md, dr, ps)
        fb == FilterBusiness(bd, dr)
    IN /\ marketing_data = md
       /\ business_data = bd
       /\ date_range = dr
       /\ platforms = ps
       /\ filtered_marketing = fm
       /\ filtered_business = fb
       /\ summary = ExecutiveSummary(fm, fb)
       /\ aggregates = RecommendationAggregates(fm)
       /\ rec = StrategicRecommendations(fm)
       /\ daily_data = PerformanceTrends(fm)
       /\ messages = <<>>

---------------------------------------------------------------------------
(* run_dashboard.py: one run of the script, section by section            *)

FileNames == <<"Facebook.csv", "Google.csv", "TikTok.csv", "business.csv">>
FrameNames == <<"facebook_df", "google_df", "tiktok_df", "business_df">>

(* A table: its column names, the cells of its date column, its row count. *)
(* A date cell is the string read from the file ("str") or the timestamp   *)
(* pd.to_datetime makes of it ("ts").                                      *)
Cell(k, d) == [kind |-> k, day |-> d]
Table(cols, dates, n) ==
    [present |-> TRUE, columns |-> cols, date |-> dates, nrows |-> n]

(* A missing file, an unbound name *)
Absent == [present |-> FALSE, columns |-> {}, date |-> <<>>, nrows |-> 0]

StrDates == <<Cell("str", 1), Cell("str", 2)>>

MarketingFiles ==
    { Absent,
      Table({"date", "impression"}, StrDates, 2),
      Table({"date"}, StrDates, 2),
      Table({"impression"}, <<>>, 2) }

BusinessFiles ==
    { Absent,
      Table({"date", "total_revenue"}, StrDates, 2),
      Table({"date", "total_revenue"}, <<>>, 0),
      Table({"date"}, StrDates, 2) }

Directories ==
    { d \in [Range(FileNames) -> MarketingFiles \cup BusinessFiles] :
        /\ \A i \in 1..3 : d[FileNames[i]] \in MarketingFiles
        /\ d["business.csv"] \in BusinessFiles }

NoFrames == [n \in Range(FrameNames) \cup {"df"} |-> Absent]

(* lines 34-41: the reads happen in order inside one try; the first       *)
(* missing file raises, the except branch reports it, and the names        *)
(* assigned before it keep their tables.                                   *)
RECURSIVE ReadFrom(_, _, _)
ReadFrom(dir, i, e) ==
    IF i > Len(FileNames) THEN e
    ELSE IF ~dir[FileNames[i]].present THEN e
    ELSE ReadFrom(dir, i + 1, [e EXCEPT ![FrameNames[i]] = dir[FileNames[i]]])

LoadDatasets ==
    /\ pc = "load"
    /\ env' = ReadFrom(files, 1, NoFrames)
    /\ loaded' = env'
    /\ load_error' = (\E i \in DOMAIN FileNames : ~files[FileNames[i]].present)
    /\ rendered' = Append(rendered, IF load_error' THEN "load error" ELSE "loaded")
    /\ pc' = "filters"
    /\ UNCHANGED <<files, df_ref, platform, exception>>
    /\ UNCHANGED dashVars

FrameOf(p) ==
    CASE p = "Facebook" -> "facebook_df"
      [] p = "Google" -> "google_df"
      [] OTHER -> "tiktok_df"

(* lines 46-56: df = <the selected platform's frame>; reading an unbound  *)
(* name raises NameError.                                                  *)
SidebarFilters(p) ==
    /\ pc = "filters"
    /\ platform' = p
    /\ IF env[FrameOf(p)].present
       THEN /\ df_ref' = FrameOf(p)
            /\ pc' = "date"
            /\ rendered' = Append(rendered, "filters")
            /\ UNCHANGED exception
       ELSE /\ pc' = "crashed"
            /\ exception' = "NameError"
            /\ UNCHANGED <<df_ref, rendered>>
    /\ UNCHANGED <<files, env, loaded, load_error>>
    /\ UNCHANGED dashVars

ToDatetime(col) == [i \in DOMAIN col |-> Cell("ts", col[i].day)]

(* st.sidebar.date_input: a tuple of one date (range half picked) or two *)
SidebarSelections == {<<a>> : a \in 1..2} \cup {<<a, b>> : a \in 1..2, b \in 1..2}

(* lines 59-65: df['date'] = pd.to_datetime(df['date']) assigns into the  *)
(* object df names, which is the loaded frame itself; the two-name         *)
(* unpacking raises ValueError on a one-date tuple; the filter binds df    *)
(* to a new table.                                                         *)
DateRangeFilter(dr) ==
    /\ pc = "date"
    /\ dr \in SidebarSelections
    /\ IF "date" \in env[df_ref].columns
       THEN LET parsed == [env[df_ref] EXCEPT !.date = ToDatetime(@)]
                e1 == [env EXCEPT ![df_ref] = parsed]
                kept == SelectSeq(parsed.date,
                                  LAMBDA c : c.day >= dr[1] /\ c.day <= dr[2])
            IN IF Len(dr) # 2
               THEN /\ env' = e1
                    /\ pc' = "crashed"
                    /\ exception' = "ValueError: unpack"
                    /\ UNCHANGED <<df_ref, rendered>>
               ELSE /\ env' = [e1 EXCEPT !["df"] =
                                   Table(parsed.columns, kept, Len(kept))]
                    /\ df_ref' = "df"
                    /\ pc' = "chart"
                    /\ rendered' = Append(rendered, "date filter")
                    /\ UNCHANGED exception
       ELSE /\ pc' = "chart"
            /\ UNCHANGED <<env, df_ref, rendered, exception>>
    /\ UNCHANGED <<files, loaded, platform, load_error>>
    /\ UNCHANGED dashVars

(* lines 70-76: px.line raises ValueError when x names no column of df *)
ExampleChart ==
    /\ pc = "chart"
    /\ IF "impression" \in env[df_ref].columns
       THEN IF "date" \in env[df_ref].columns
            THEN /\ rendered' = Append(rendered, "chart")
                 /\ pc' = "business"
                 /\ UNCHANGED exception
            ELSE /\ pc' = "crashed"
                 /\ exception' = "ValueError: column"
                 /\ UNCHANGED rendered
       ELSE /\ rendered' = Append(rendered, "no impression column")
            /\ pc' = "business"
            /\ UNCHANGED exception
    /\ UNCHANGED <<files, env, loaded, df_ref, platform, load_error>>
    /\ UNCHANGED dashVars

(* lines 81-88 *)
BusinessMetrics ==
    /\ pc = "business"
    /\ IF ~env["business_df"].present
       THEN /\ pc' = "crashed"
            /\ exception' = "NameError"
            /\ UNCHANGED rendered
       ELSE IF env["business_df"].nrows # 0
       THEN IF {"date", "total_revenue"} \subseteq env["business_df"].columns
            THEN /\ rendered' = Append(rendered, "business")
                 /\ pc' = "footer"
                 /\ UNCHANGED exception
            ELSE /\ pc' = "crashed"
                 /\ exception' = "ValueError: column"
                 /\ UNCHANGED rendered
       ELSE /\ rendered' = Append(rendered, "business empty")
            /\ pc' = "footer"
            /\ UNCHANGED exception
    /\ UNCHANGED <<files, env, loaded, df_ref, platform, load_error>>
    /\ UNCHANGED dashVars

(* lines 93-94 *)
Footer ==
    /\ pc = "footer"
    /\ rendered' = Append(rendered, "footer")
    /\ pc' = "done"
    /\ UNCHANGED <<files, env, loaded, df_ref, platform, load_error, exception>>
    /\ UNCHANGED dashVars

(* Any interaction after a run has ended re-runs the script from the top *)
Rerun ==
    /\ pc \in {"done", "crashed"}
    /\ pc' = "load"
    /\ env' = NoFrames
    /\ loaded' = NoFrames
    /\ df_ref' = "df"
    /\ load_error' = FALSE
    /\ exception' = "none"
    /\ rendered' = <<>>
    /\ UNCHANGED <<files, platform>>
    /\ UNCHANGED dashVars

RunStart(dir) ==
    /\ files = dir
    /\ env = NoFrames
    /\ loaded = NoFrames
    /\ df_ref = "df"
    /\ platform = "Facebook"
    /\ pc = "load"
    /\ load_error = FALSE
    /\ exception = "none"
    /\ rendered = <<>>

---------------------------------------------------------------------------
(* Specifications *)

(* The dashboard over every bounded snapshot *)
Init ==
    /\ \E md \in Snapshots, bd \in BusinessTables : DashStart(md, bd)
    /\ RunStart([f \in Range(FileNames) |-> Absent])

Next ==
    \/ \E dr \in DateSelections(marketing_data) : SelectPeriod(dr)
    \/ \E ps \in SUBSET PlatformOptions(marketing_data) : SelectPlatforms(ps)

Spec == Init /\ [][Next]_vars

(* A session with the assistant over one snapshot *)
ChatSnapshot == SubSeq(RowDomain, 1, 2)

ChatInit ==
    /\ DashStart(ChatSnapshot, BusinessFull)
    /\ RunStart([f \in Range(FileNames) |-> Absent])

ChatNext ==
    \/ \E dr \in DateSelections(marketing_data) : SelectPeriod(dr)
    \/ \E ps \in SUBSET PlatformOptions(marketing_data) : SelectPlatforms(ps)
    \/ \E p \in Prompts, sv \in Service : SubmitPrompt(p, sv)

ChatSpec == ChatInit /\ [][ChatNext]_vars

(* The deployment script over every dataset directory *)
RunInit ==
    /\ DashStart(ChatSnapshot, BusinessFull)
    /\ \E dir \in Directories : RunStart(dir)

RunNext ==
    \/ LoadDatasets
    \/ \E p \in Range(PlatformOrder) : SidebarFilters(p)
    \/ \E dr \in SidebarSelections : DateRangeFilter(dr)
    \/ ExampleChart
    \/ BusinessMetrics
    \/ Footer
    \/ Rerun

RunSpec == RunInit /\ [][RunNext]_vars

---------------------------------------------------------------------------
(* Properties *)

Dims == {"platform", "state", "tactic"}

BestOf(dim) ==
    CASE dim = "platform" -> rec.best_channel
      [] dim = "state" -> rec.best_state
      [] dim = "tactic" -> rec.best_tactic

IndexOfKey(a, k) == CHOOSE i \in DOMAIN a : a[i].key = k

(* C1: in every non-empty filtered view and for each dimension, the best  *)
(* performer is a group whose mean roas is at least the mean roas of       *)
(* every other group, and among the groups at the maximum it is the first  *)
(* in ascending key order.                                                 *)
C1_BestPerformerIsMaximal ==
    filtered_marketing # <<>> =>
        \A dim \in Dims :
            LET a == Agg(filtered_marketing, dim)
                b == IndexOfKey(a, BestOf(dim))
            IN /\ \A i \in DOMAIN a : RLeq(a[i].roas, a[b].roas)
               /\ \A i \in 1..(b-1) : RLess(a[i].roas, a[b].roas)

(* C2: rounding to 2 decimals touches displayed values only: the          *)
(* aggregates behind the findings are the unrounded group sums and means,  *)
(* so every selection and threshold comparison comes out as it does on     *)
(* the unrounded aggregates.                                               *)
C2_RoundingOnlyForDisplay ==
    filtered_marketing # <<>> =>
        LET cp == Agg(filtered_marketing, "platform")
            u == Findings(cp, Agg(filtered_marketing, "state"),
                          Agg(filtered_marketing, "tactic"), rec.roas)
        IN /\ \A i \in DOMAIN cp :
                 /\ REq(aggregates.platform[i].roas, cp[i].roas)
                 /\ REq(aggregates.platform[i].cpc, cp[i].cpc)
           /\ REq(rec.avg_roas, u.avg_roas)
           /\ rec.best_channel = u.best_channel
           /\ rec.best_state = u.best_state
           /\ rec.best_tactic = u.best_tactic
           /\ rec.worst_channel = u.worst_channel
           /\ rec.expensive_channel = u.expensive_channel
           /\ rec.growth = u.growth

(* C3: for every grouping dimension the group sums of spend, and of       *)
(* attributed revenue, add up to the sum over the ungrouped filtered       *)
(* table.                                                                  *)
C3_SumConservation ==
    LET total(col) == <<ColSum(filtered_marketing, col), 1>>
        conserved(a) ==
            /\ REq(RSum(Column(a, "spend")), total("spend"))
            /\ REq(RSum(Column(a, "attributed_revenue")), total("attributed_revenue"))
    IN /\ \A dim \in Dims : conserved(aggregates[dim])
       /\ conserved(daily_data)

Count(t, r) == Cardinality({i \in DOMAIN t : t[i] = r})

(* The table f holds exactly the records of t that satisfy keep *)
ExactlyThose(f, t, keep(_)) ==
    /\ Range(f) \subseteq Range(t)
    /\ \A r \in Range(t) : Count(f, r) = IF keep(r) THEN Count(t, r) ELSE 0

(* C4 as stated: for every date-range selection and platform set the      *)
(* filter yields exactly the marketing records dated within the selection  *)
(* and of a selected platform, and exactly the business records dated      *)
(* within the selection.                                                   *)
C4_FilterEverySelection ==
    LET start == date_range[1]
        end == date_range[Len(date_range)]
    IN /\ ExactlyThose(filtered_marketing, marketing_data,
                       LAMBDA r : start <= r.date /\ r.date <= end
                                  /\ r.platform \in platforms)
       /\ ExactlyThose(filtered_business, business_data,
                       LAMBDA r : start <= r.date /\ r.date <= end)

(* C4 amended: a selection of two dates filters both tables to            *)
(* [start, end] inclusive (marketing also by platform; start > end and an  *)
(* empty platform set give empty tables); a selection of one date applies  *)
(* no date predicate: marketing is filtered by platform only and the       *)
(* business table is passed whole.                                         *)
C4_FilterCompleteSelection ==
    IF Len(date_range) = 2
    THEN /\ ExactlyThose(filtered_marketing, marketing_data,
                         LAMBDA r : date_range[1] <= r.date /\ r.date <= date_range[2]
                                    /\ r.platform \in platforms)
         /\ ExactlyThose(filtered_business, business_data,
                         LAMBDA r : date_range[1] <= r.date /\ r.date <= date_range[2])
         /\ date_range[1] > date_range[2] =>
                filtered_marketing = <<>> /\ filtered_business = <<>>
         /\ platforms = {} => filtered_marketing = <<>>
    ELSE /\ ExactlyThose(filtered_marketing, marketing_data,
                         LAMBDA r : r.platform \in platforms)
         /\ filtered_business = business_data

C4_Witness ==
    /\ Len(date_range) = 2
    /\ date_range[1] <= date_range[2]
    /\ filtered_marketing # <<>>
    /\ Len(filtered_marketing) < Len(marketing_data)
    /\ filtered_business # <<>>
    /\ Len(filtered_business) < Len(business_data)
    /\ platforms # PlatformOptions(marketing_data)

(* C5: the overall ROAS is total attributed revenue over total spend when *)
(* total spend > 0 and 0 otherwise; CAC is total spend over total new      *)
(* customers when that is > 0 and 0 otherwise, also for an empty business  *)
(* view; no division by zero is ever attempted.                            *)
C5_GuardedDivisions ==
    LET ts == ColSum(filtered_marketing, "spend")
        tr == ColSum(filtered_marketing, "attributed_revenue")
        nc == ColSum(filtered_business, "new_customers")
        is(q, a, b) == ~q.div_by_zero /\ q.num * b = a * q.den
    IN /\ IF ts > 0 THEN is(summary.roas, tr, ts) ELSE summary.roas = Zero
       /\ IF nc > 0 THEN is(summary.cac, ts, nc) ELSE summary.cac = Zero
       /\ rec.shown =>
            IF ts > 0 THEN is(rec.roas, tr, ts) ELSE rec.roas = Zero

C5_Witness ==
    /\ filtered_marketing # <<>>
    /\ ColSum(filtered_marketing, "spend") = 0
    /\ filtered_business # <<>>
    /\ ColSum(filtered_business, "new_customers") = 0
    /\ summary.roas = Zero
    /\ summary.cac = Zero
    /\ rec.shown

(* C6: a load or schema error (a missing dataset file, a missing expected *)
(* column) is not fatal: once it has occurred the run is never ended by    *)
(* an unbound name or a missing column, so every later section is          *)
(* reached.                                                                *)
ExpectedColumns(f) ==
    IF f = "business.csv" THEN {"date", "total_revenue"} ELSE {"date", "impression"}

SchemaError ==
    \E f \in Range(FileNames) :
        files[f].present /\ ~(ExpectedColumns(f) \subseteq files[f].columns)

C6_LoadErrorsNonFatal ==
    (pc # "load" /\ (load_error \/ SchemaError)) =>
        exception \notin {"NameError", "ValueError: column"}

(* C7: whatever the answering service does, after any sequence of prompts *)
(* every user message in the history is immediately followed by exactly    *)
(* one assistant message, the answer or the fallback string.               *)
C7_EveryPromptAnswered ==
    \A i \in DOMAIN messages :
        messages[i].role = "user" =>
            /\ i + 1 \in DOMAIN messages
            /\ messages[i+1].role = "assistant"
            /\ messages[i+1].content \in {Answer, Fallback}
            /\ i + 2 \in DOMAIN messages => messages[i+2].role = "user"

C7_Witness ==
    /\ Len(messages) = 4
    /\ messages[1].role = "user"
    /\ messages[2].content = Fallback
    /\ messages[3].role = "user"
    /\ messages[4].content = Answer

(* C8: the loaded tables are never mutated after load: every frame holds  *)
(* the rows and column values it held immediately after loading.           *)
C8_SnapshotImmutable ==
    pc # "load" =>
        \A n \in Range(FrameNames) : env[n] = loaded[n]

(* C9: the underperformer is, among the channels whose mean roas is       *)
(* strictly below the mean of the channel means, the one of minimal roas   *)
(* (first key among equals); none is reported exactly when no channel is   *)
(* strictly below that mean; it is never the best performer.               *)
C9_Underperformer ==
    filtered_marketing # <<>> =>
        LET a == Agg(filtered_marketing, "platform")
            avg == RMean(Column(a, "roas"))
            below == {i \in DOMAIN a : RLess(a[i].roas, avg)}
        IN /\ (rec.worst_channel = NoFinding) <=> (below = {})
           /\ rec.worst_channel # NoFinding =>
                LET w == IndexOfKey(a, rec.worst_channel) IN
                /\ w \in below
                /\ \A i \in below : RLeq(a[w].roas, a[i].roas)
                /\ \A i \in below : i < w => RLess(a[w].roas, a[i].roas)
                /\ rec.worst_channel # rec.best_channel

(* C10: over the date-ordered daily spend series the growth of the first  *)
(* element is null, the growth of every later element is the percent       *)
(* change from its immediate predecessor, and when the series is strictly  *)
(* increasing every growth after the first is positive.                    *)
DaySpend(d) ==
    ColSum(SelectSeq(filtered_marketing, LAMBDA r : r.date = d), "spend")

Positive(g) ==
    \/ g.kind = "inf"
    \/ g.kind = "num" /\ ((g.num > 0 /\ g.den > 0) \/ (g.num < 0 /\ g.den < 0))

C10_SpendGrowth ==
    LET days == {filtered_marketing[i].date : i \in DOMAIN filtered_marketing}
        n == Len(daily_data)
        spend(i) == DaySpend(daily_data[i].date)
    IN /\ n = Cardinality(days)
       /\ \A i \in 1..n :
            /\ daily_data[i].date \in days
            /\ i > 1 => daily_data[i-1].date < daily_data[i].date
            /\ daily_data[i].spend = <<spend(i), 1>>
       /\ n > 0 => daily_data[1].spend_growth.kind = "null"
       /\ \A i \in 2..n :
            LET g == daily_data[i].spend_growth IN
            /\ g.kind # "null"
            /\ spend(i-1) > 0 =>
                 /\ g.kind = "num"
                 /\ g.num = 100 * (spend(i) - spend(i-1))
                 /\ g.den = spend(i-1)
       /\ (\A i \in 2..n : spend(i) > spend(i-1)) =>
            \A i \in 2..n : Positive(daily_data[i].spend_growth)

C10_Witness ==
    /\ Len(daily_data) = 3
    /\ \A i \in 2..3 : daily_data[i].spend[1] > daily_data[i-1].spend[1]
    /\ daily_data[1].spend_growth.kind = "null"
    /\ daily_data[2].spend_growth.kind = "num"
    /\ daily_data[2].spend_growth.num > 0

====
